---- MODULE Spec2Model ----
(***************************************************************************)
(* The real-time dispatch relay of ng-taxi: the ASGI entry point           *)
(* (taxi/routing.py), the websocket consumer TaxiConsumer                  *)
(* (trips/consumers.py), the channel layer it talks to and the trip table  *)
(* it writes.  One connection = one consumer instance = one channel.       *)
(***************************************************************************)
EXTENDS Integers, Sequences, FiniteSets, TLC

VARIABLES
    state,        \* per connection: position in its lifecycle
    scope,        \* per connection: scope['user'] as the auth layer resolved it
    accepted,     \* per connection: accept() has been sent
    groups,       \* channel layer: group name -> set of channels
    chanq,        \* channel layer: per channel, messages waiting for the consumer
    outbox,       \* per connection: envelopes sent to the client (send_json)
    trips,        \* the Trip table, in creation order
    created_by,   \* history: per row of the Trip table, the connection whose
                  \* create_trip stored it (external for rows made elsewhere)
    user_groups,  \* auth tables: user -> names of the user's groups, in pk order
    ext_sends,    \* number of group_send calls made from outside the consumers
    response,     \* the rows of the last answer of the HTTP trip endpoint
    frame,        \* per connection: the handler suspended at an await, and
                  \* what it holds (the role it looked up, the trip it stored)
    last          \* the handler that ran last, its input and what it raised

vars == <<state, scope, accepted, groups, chanq, outbox, trips, created_by,
          user_groups, ext_sends, response, frame, last>>

----------------------------------------------------------------------------
(* Bounds of the model *)

\* trips created + client echoes answered + sends from outside the consumers
MaxEvents == 2

\* rows of the Trip table when the HTTP trip endpoint is asked
MaxRows == 2

\* the channels of the connections that are opened (one consumer each)
Conns == {"channel.1", "channel.2"}
External == "external"

----------------------------------------------------------------------------
(* Identities, tokens and roles *)

Anonymous == "AnonymousUser"
Users == {"alice", "bob", "carol"}
Null == "null"
None == "None"

\* the users the tests create: a rider, a driver; carol belongs to no group
InitUserGroups == [u \in Users |->
                     CASE u = "alice" -> <<"rider">>
                       [] u = "bob"   -> <<"driver">>
                       [] OTHER       -> <<>>]

Tokens == {[kind |-> "absent", user |-> Null]}
            \cup [kind : {"access", "invalid"}, user : Users]

\* Auth Verifier: verify(token) -> Identity | Unauthenticated
verify(tok) == IF tok.kind = "access" /\ tok.user \in Users
               THEN tok.user
               ELSE Anonymous

is_anonymous(user) == user = Anonymous

\* user.groups.first().name ; first() is None for a user without groups
HasGroup(ug, user) == user \in DOMAIN ug /\ Len(ug[user]) > 0
_get_user_group(ug, user) == IF HasGroup(ug, user) THEN Head(ug[user]) ELSE None

----------------------------------------------------------------------------
(* Envelopes: JSON objects, modelled as functions from keys to values *)

Get(obj, key) == IF key \in DOMAIN obj THEN obj[key] ELSE None

NoData == [k \in {} |-> ""]
NoContent == [type |-> "-", data |-> NoData]

TestMessage == [type |-> "echo.message",
                data |-> [text |-> "This is a test message"]]

RequiredFields == {"pick_up_address", "drop_off_address"}

CreatePayloads ==
    {[pick_up_address |-> "MX", drop_off_address |-> "GY", rider |-> "alice"],
     [drop_off_address |-> "GY", rider |-> "alice"]}

REQUESTED == "REQUESTED"
IN_PROGRESS == "IN_PROGRESS"
COMPLETED == "COMPLETED"
TerminalStatuses == {COMPLETED}

TripId(n) == ToString(n)
TripIds == {TripId(n) : n \in 1..MaxEvents}

UpdatePayloads(tr) ==
    {[id |-> tr[i].id, pick_up_address |-> tr[i].pick_up_address,
      drop_off_address |-> tr[i].drop_off_address,
      status |-> IN_PROGRESS, driver |-> "bob"] : i \in 1..Len(tr)}

\* what a client may put on the wire, given the trips that exist
PingMessage == [type |-> "echo.message", data |-> [text |-> "ping"]]

Contents(tr) ==
    {PingMessage}
      \cup {[type |-> "create.trip", data |-> d] : d \in CreatePayloads}
      \cup {[type |-> "update.trip", data |-> d] : d \in UpdatePayloads(tr)}
      \cup {[type |-> "cancel.trip", data |-> NoData]}
      \cup {[data |-> [text |-> "ping"]]}

----------------------------------------------------------------------------
(* Trip repository *)

\* TripSerializer(data=data).is_valid(): the required fields are present
TripSerializer_is_valid(data) == RequiredFields \subseteq DOMAIN data

\* TripSerializer.create(validated_data): a new row, REQUESTED, no driver
TripSerializer_create(tr, data) ==
    [id |-> TripId(Len(tr) + 1),
     pick_up_address |-> data.pick_up_address,
     drop_off_address |-> data.drop_off_address,
     status |-> REQUESTED,
     rider |-> Get(data, "rider"),
     driver |-> Null]

\* NestedTripSerializer(trip).data: the trip as the clients see it
NestedTripSerializer_data(trip) ==
    [id |-> trip.id,
     pick_up_address |-> trip.pick_up_address,
     drop_off_address |-> trip.drop_off_address,
     status |-> trip.status,
     rider |-> trip.rider,
     driver |-> trip.driver]

\* TaxiConsumer._create_trip raises ValidationError on a payload that is not valid
is_valid(data) == TripSerializer_is_valid(data)

\* TaxiConsumer._create_trip
_create_trip(tr, data) == TripSerializer_create(tr, data)

\* TaxiConsumer._get_trip_data
_get_trip_data(trip) == NestedTripSerializer_data(trip)

\* rows made with Trip.objects.create outside any consumer (as the tests'
\* create_trip helper can), in states the Trip table can be in
SeedRows ==
    {[status |-> REQUESTED, rider |-> Null, driver |-> "bob"],
     [status |-> IN_PROGRESS, rider |-> "alice", driver |-> "bob"]}

----------------------------------------------------------------------------
(* Channel layer (InMemoryChannelLayer) *)

GroupNames == {"drivers"} \cup TripIds

group_add(gs, group, channel) ==
    [gs EXCEPT ![group] = @ \cup {channel}]

group_discard(gs, group, channel) ==
    [gs EXCEPT ![group] = @ \ {channel}]

\* group_send that puts two copies on the channel of every member
group_send_twice(q, gs, group, message) ==
    [c \in Conns |-> IF c \in gs[group] THEN q[c] \o <<message, message>> ELSE q[c]]

\* group_send that puts the message ahead of what waits on the channel
group_send_front(q, gs, group, message) ==
    [c \in Conns |-> IF c \in gs[group] THEN <<message>> \o q[c] ELSE q[c]]

\* group_send that does not look at the group: every channel gets a copy
group_send_everyone(q, gs, group, message) ==
    [c \in Conns |-> Append(q[c], message)]

\* one copy of the message on the queue of every channel in the group now
group_send(q, gs, group, message) ==
    [c \in Conns |-> IF c \in gs[group] THEN Append(q[c], message) ELSE q[c]]

\* self.send_json(content)
send_json(out, c, content) == [out EXCEPT ![c] = Append(@, content)]

\* connect with the role test dropped: nobody joins the pool
join_pool_nobody(gs, user_group, c) == gs

\* connect: a driver's channel joins the pool group
join_pool(gs, user_group, c) ==
    IF user_group = "driver" THEN group_add(gs, "drivers", c) ELSE gs

\* disconnect: a driver's channel leaves the pool group
leave_pool(gs, user_group, c) ==
    IF user_group = "driver" THEN group_discard(gs, "drivers", c) ELSE gs

\* client echoes answered so far, over all connections
Echoes ==
    Cardinality(UNION {{<<c, i>> : i \in {j \in DOMAIN outbox[c] :
                                            outbox[c][j] = PingMessage}} : c \in Conns})

\* trips created, client echoes answered and outside sends so far: the model
\* stops producing new ones at MaxEvents
Events == Len(trips) + Echoes + ext_sends

----------------------------------------------------------------------------
(* ASGI entry point *)

\* taxi/routing.py: application = ProtocolTypeRouter({'http': ...})
application_mapping == {"http"}

\* ProtocolTypeRouter.__call__: the scope's type picks the application
ProtocolTypeRouter(mapping, scope_type) ==
    IF scope_type \in mapping THEN None ELSE "ValueError"

----------------------------------------------------------------------------
(* A consumer runs one handler at a time; a handler that awaits a
   @database_sync_to_async call returns to the event loop there, and the
   handlers of the other connections run before it is resumed. *)

NoFrame ==
    [at |-> "-", user_group |-> None, trip |-> Null, trip_data |-> NoData,
     content |-> NoContent]

Init ==
    /\ state = [c \in Conns |-> "Idle"]
    /\ scope = [c \in Conns |-> Anonymous]
    /\ accepted = [c \in Conns |-> FALSE]
    /\ groups = [g \in GroupNames |-> {}]
    /\ chanq = [c \in Conns |-> <<>>]
    /\ outbox = [c \in Conns |-> <<>>]
    /\ trips = <<>>
    /\ created_by = <<>>
    /\ user_groups = InitUserGroups
    /\ ext_sends = 0
    /\ response = <<>>
    /\ frame = [c \in Conns |-> NoFrame]
    /\ last = [op |-> "init", conn |-> External, content |-> NoContent, raised |-> None]

\* a handler that has returned to the event loop inside an await
Suspended(c) == frame[c].at # "-"

Did(op, c, content, raised) ==
    last' = [op |-> op, conn |-> c, content |-> content, raised |-> raised]

\* A client opens a websocket on the project's ASGI application with a token
\* (the tests' WebsocketCommunicator(application, '/taxi/?token=...')).
application(c, tok) ==
    /\ state[c] = "Idle"
    /\ LET raised == ProtocolTypeRouter(application_mapping, "websocket") IN
         /\ state' = [state EXCEPT ![c] = IF raised = None THEN "Connecting"
                                                            ELSE "Faulted"]
         /\ scope' = [scope EXCEPT ![c] = IF raised = None THEN verify(tok) ELSE @]
         /\ Did("application", c, [type |-> "websocket.connect", data |-> tok], raised)
    /\ UNCHANGED <<accepted, groups, chanq, outbox, trips, created_by, user_groups, ext_sends, response, frame>>

\* A client opens a websocket on TaxiConsumer run as the ASGI application,
\* behind the auth layer that fills scope['user'].
as_asgi(c, tok) ==
    /\ state[c] = "Idle"
    /\ scope' = [scope EXCEPT ![c] = verify(tok)]
    /\ state' = [state EXCEPT ![c] = "Connecting"]
    /\ Did("as_asgi", c, [type |-> "websocket.connect", data |-> tok], None)
    /\ UNCHANGED <<accepted, groups, chanq, outbox, trips, created_by, user_groups, ext_sends, response, frame>>

\* connect with accept() outside the else branch: it runs after close() too
connect_accept_always(c) ==
    /\ state[c] = "Connecting"
    /\ ~Suspended(c)
    /\ LET user == scope[c] IN
       IF is_anonymous(user)
       THEN /\ accepted' = [accepted EXCEPT ![c] = TRUE]
            /\ state' = [state EXCEPT ![c] = "Joined"]
            /\ Did("connect", c, NoContent, None)
            /\ UNCHANGED frame
       ELSE IF ~HasGroup(user_groups, user)
       THEN /\ state' = [state EXCEPT ![c] = "Faulted"]
            /\ Did("connect", c, NoContent, "AttributeError")
            /\ UNCHANGED <<accepted, frame>>
       ELSE /\ frame' = [frame EXCEPT ![c] =
                           [NoFrame EXCEPT !.at = "connect",
                                           !.user_group = _get_user_group(user_groups, user)]]
            /\ Did("_get_user_group", c, NoContent, None)
            /\ UNCHANGED <<state, accepted>>
    /\ UNCHANGED <<scope, groups, chanq, outbox, trips, created_by, user_groups, ext_sends, response>>

\* TaxiConsumer.connect up to the end of the await of _get_user_group: the
\* role is read from the tables in the worker thread; the exception of a
\* user without a group is the handler's (nothing else happens before it)
connect(c) ==
    /\ state[c] = "Connecting"
    /\ ~Suspended(c)
    /\ LET user == scope[c] IN
       IF is_anonymous(user)
       THEN \* self.close()
            /\ state' = [state EXCEPT ![c] = "Rejected"]
            /\ Did("connect", c, NoContent, None)
            /\ UNCHANGED frame
       ELSE IF ~HasGroup(user_groups, user)
       THEN \* None.name
            /\ state' = [state EXCEPT ![c] = "Faulted"]
            /\ Did("connect", c, NoContent, "AttributeError")
            /\ UNCHANGED frame
       ELSE /\ frame' = [frame EXCEPT ![c] =
                           [NoFrame EXCEPT !.at = "connect",
                                           !.user_group = _get_user_group(user_groups, user)]]
            /\ Did("_get_user_group", c, NoContent, None)
            /\ UNCHANGED state
    /\ UNCHANGED <<scope, accepted, groups, chanq, outbox, trips, created_by, user_groups,
                   ext_sends, response>>

\* TaxiConsumer.connect resumed: group_add for the role that was looked up,
\* then accept()
connect_resumed(c) ==
    /\ frame[c].at = "connect"
    /\ groups' = join_pool(groups, frame[c].user_group, c)
    /\ accepted' = [accepted EXCEPT ![c] = TRUE]
    /\ state' = [state EXCEPT ![c] = "Joined"]
    /\ frame' = [frame EXCEPT ![c] = NoFrame]
    /\ Did("connect", c, NoContent, None)
    /\ UNCHANGED <<scope, chanq, outbox, trips, created_by, user_groups, ext_sends, response>>

\* what TaxiConsumer.disconnect raises for this identity
disconnect_raised(ug, user) ==
    IF is_anonymous(user)
    THEN \* self.close(), then super().disconnect(code)
         None
    ELSE IF ~HasGroup(ug, user)
    THEN \* None.name
         "AttributeError"
    ELSE None

\* the groups after TaxiConsumer.disconnect on channel c for this identity,
\* when nothing changes the tables between its lookup and its discard
disconnect_groups(gs, ug, user, c) ==
    IF is_anonymous(user) \/ ~HasGroup(ug, user)
    THEN gs
    ELSE leave_pool(gs, _get_user_group(ug, user), c)

\* TaxiConsumer.disconnect, run on websocket.disconnect, up to the end of
\* the await of _get_user_group
disconnect(c) ==
    /\ state[c] \in {"Joined", "Rejected"}
    /\ ~Suspended(c)
    /\ LET user == scope[c]
           raised == disconnect_raised(user_groups, user)
       IN IF is_anonymous(user) \/ raised # None
          THEN /\ state' = [state EXCEPT ![c] = IF raised = None THEN "Closed" ELSE "Faulted"]
               /\ Did("disconnect", c, NoContent, raised)
               /\ UNCHANGED frame
          ELSE /\ frame' = [frame EXCEPT ![c] =
                              [NoFrame EXCEPT !.at = "disconnect",
                                              !.user_group = _get_user_group(user_groups, user)]]
               /\ Did("_get_user_group", c, NoContent, None)
               /\ UNCHANGED state
    /\ UNCHANGED <<scope, accepted, groups, chanq, outbox, trips, created_by, user_groups,
                   ext_sends, response>>

\* TaxiConsumer.disconnect resumed: group_discard for the role that was
\* looked up, then super().disconnect(code)
disconnect_resumed(c) ==
    /\ frame[c].at = "disconnect"
    /\ groups' = leave_pool(groups, frame[c].user_group, c)
    /\ state' = [state EXCEPT ![c] = "Closed"]
    /\ frame' = [frame EXCEPT ![c] = NoFrame]
    /\ Did("disconnect", c, NoContent, None)
    /\ UNCHANGED <<scope, accepted, chanq, outbox, trips, created_by, user_groups, ext_sends, response>>

\* echo_message that answers through the pool group as well
echo_message_to_pool(c, message) ==
    /\ outbox' = send_json(outbox, c, message)
    /\ chanq' = group_send(chanq, groups, "drivers", message)
    /\ UNCHANGED <<state, groups, trips, created_by, frame>>

\* TaxiConsumer.echo_message
echo_message(c, message) ==
    /\ outbox' = send_json(outbox, c, message)
    /\ UNCHANGED <<state, groups, chanq, trips, created_by, frame>>

\* TaxiConsumer.create_trip up to the end of the await of _create_trip: the
\* row is inserted in the worker thread; a payload that is not valid raises
\* there and the exception leaves the handler
create_trip(c, message) ==
    LET data == Get(message, "data") IN
    IF ~is_valid(data)
    THEN \* serializer.is_valid(raise_exception=True): the consumer dies here
         /\ state' = [state EXCEPT ![c] = "Faulted"]
         /\ UNCHANGED <<groups, chanq, outbox, trips, created_by, frame>>
    ELSE LET trip == _create_trip(trips, data)
         IN /\ trips' = Append(trips, trip)
            /\ created_by' = Append(created_by, c)
            /\ frame' = [frame EXCEPT ![c] =
                           [NoFrame EXCEPT !.at = "_create_trip",
                                           !.trip = trip.id,
                                           !.content = message]]
            /\ UNCHANGED <<state, groups, chanq, outbox>>

\* the row of the trip with this id
TripIndex(tr, id) == CHOOSE i \in 1..Len(tr) : tr[i].id = id

\* create_trip resumed, with the group_send to the pool left out
create_trip_reply_only(c) ==
    /\ frame[c].at = "_get_trip_data"
    /\ LET alert == [type |-> "echo.message", data |-> frame[c].trip_data]
       IN /\ outbox' = send_json(outbox, c, alert)
          /\ UNCHANGED <<groups, chanq>>
    /\ frame' = [frame EXCEPT ![c] = NoFrame]
    /\ Did("receive_json", c, frame[c].content, None)
    /\ UNCHANGED <<state, scope, accepted, trips, created_by, user_groups, ext_sends, response>>

\* create_trip resumed, also adding the sender's channel to the trip's group
create_trip_joins_group(c) ==
    /\ frame[c].at = "_get_trip_data"
    /\ LET alert == [type |-> "echo.message", data |-> frame[c].trip_data]
       IN /\ groups' = group_add(groups, frame[c].trip, c)
          /\ chanq' = group_send(chanq, groups, "drivers", alert)
          /\ outbox' = send_json(outbox, c, alert)
    /\ frame' = [frame EXCEPT ![c] = NoFrame]
    /\ Did("receive_json", c, frame[c].content, None)
    /\ UNCHANGED <<state, scope, accepted, trips, created_by, user_groups, ext_sends, response>>

\* TaxiConsumer.create_trip resumed with the trip that _create_trip stored:
\* it awaits _get_trip_data, which serializes the trip
create_trip_stored(c) ==
    /\ frame[c].at = "_create_trip"
    /\ LET trip == trips[TripIndex(trips, frame[c].trip)]
           trip_data == _get_trip_data(trip)
       IN frame' = [frame EXCEPT ![c] = [@ EXCEPT !.at = "_get_trip_data",
                                                 !.trip_data = trip_data]]
    /\ Did("_get_trip_data", c, frame[c].content, None)
    /\ UNCHANGED <<state, scope, accepted, groups, chanq, outbox, trips, created_by,
                   user_groups, ext_sends, response>>

\* TaxiConsumer.create_trip resumed with the trip's data: group_send to the
\* pool as it is now, send_json to the sender; receive_json returns
create_trip_resumed(c) ==
    /\ frame[c].at = "_get_trip_data"
    /\ LET alert == [type |-> "echo.message", data |-> frame[c].trip_data]
       IN /\ chanq' = group_send(chanq, groups, "drivers", alert)
          /\ outbox' = send_json(outbox, c, alert)
          /\ UNCHANGED groups
    /\ frame' = [frame EXCEPT ![c] = NoFrame]
    /\ Did("receive_json", c, frame[c].content, None)
    /\ UNCHANGED <<state, scope, accepted, trips, created_by, user_groups, ext_sends, response>>

\* what the step of receive_json is recorded as: the handler has returned
\* (or raised), or the database call of create_trip has returned
Returned(content) ==
    IF Get(content, "type") = "create.trip" /\ is_valid(Get(content, "data"))
    THEN "_create_trip"
    ELSE "receive_json"

\* what handling the envelope raises
Raised(content) ==
    IF Get(content, "type") = "create.trip" /\ ~is_valid(Get(content, "data"))
    THEN "ValidationError"
    ELSE None

\* receive_json whose last branch is a plain else: every other type is echoed
receive_json_echo_default(c, content) ==
    /\ state[c] = "Joined"
    /\ ~Suspended(c)
    /\ LET message_type == Get(content, "type") IN
       IF message_type = "create.trip"
       THEN /\ is_valid(Get(content, "data")) => Events < MaxEvents
            /\ create_trip(c, content)
       ELSE echo_message(c, content)
    /\ Did(Returned(content), c, content, Raised(content))
    /\ UNCHANGED <<scope, accepted, user_groups, ext_sends, response>>

\* TaxiConsumer.receive_json
receive_json(c, content) ==
    /\ state[c] = "Joined"
    /\ ~Suspended(c)
    /\ LET message_type == Get(content, "type") IN
       IF message_type = "create.trip"
       THEN /\ is_valid(Get(content, "data")) => Events < MaxEvents
            /\ create_trip(c, content)
       ELSE IF message_type = "echo.message"
       THEN /\ Events < MaxEvents
            /\ echo_message(c, content)
       ELSE UNCHANGED <<state, groups, chanq, outbox, trips, created_by, frame>>
    /\ Did(Returned(content), c, content, Raised(content))
    /\ UNCHANGED <<scope, accepted, user_groups, ext_sends, response>>

\* dispatch that takes the message off the channel and forwards nothing
dispatch_drop(c) ==
    /\ state[c] = "Joined"
    /\ ~Suspended(c)
    /\ chanq[c] # <<>>
    /\ chanq' = [chanq EXCEPT ![c] = Tail(@)]
    /\ Did("dispatch", c, Head(chanq[c]), None)
    /\ UNCHANGED <<state, scope, accepted, groups, outbox, trips, created_by, user_groups,
                   ext_sends, response, frame>>

\* AsyncConsumer.dispatch of a channel-layer message: its type names the
\* handler, and every message put on a group here is an echo.message
dispatch(c) ==
    /\ state[c] = "Joined"
    /\ ~Suspended(c)
    /\ chanq[c] # <<>>
    /\ outbox' = send_json(outbox, c, Head(chanq[c]))
    /\ chanq' = [chanq EXCEPT ![c] = Tail(@)]
    /\ Did("dispatch", c, Head(chanq[c]), None)
    /\ UNCHANGED <<state, scope, accepted, groups, trips, created_by, user_groups, ext_sends,
                   response, frame>>

\* channel_layer.group_send called from outside any consumer (the tests)
ext_group_send(group) ==
    /\ Events < MaxEvents
    /\ ext_sends' = ext_sends + 1
    /\ chanq' = group_send(chanq, groups, group, TestMessage)
    /\ Did("group_send", External, [type |-> group, data |-> NoData], None)
    /\ UNCHANGED <<state, scope, accepted, groups, outbox, trips, created_by, user_groups,
                   response, frame>>

\* Trip.objects.create called from outside any consumer (the tests)
seed_trip(row) ==
    /\ Events < MaxEvents
    /\ trips' = Append(trips,
                       [id |-> TripId(Len(trips) + 1),
                        pick_up_address |-> "123 Test Street",
                        drop_off_address |-> "456 Test Street",
                        status |-> row.status,
                        rider |-> row.rider,
                        driver |-> row.driver])
    /\ created_by' = Append(created_by, External)
    /\ Did("seed_trip", External, NoContent, None)
    /\ UNCHANGED <<state, scope, accepted, groups, chanq, outbox,
                   user_groups, ext_sends, response, frame>>

Next ==
    \/ \E c \in Conns, tok \in Tokens : application(c, tok)
    \/ \E c \in Conns, tok \in Tokens : as_asgi(c, tok)
    \/ \E c \in Conns : connect(c)
    \/ \E c \in Conns : connect_resumed(c)
    \/ \E c \in Conns : disconnect(c)
    \/ \E c \in Conns : disconnect_resumed(c)
    \/ \E c \in Conns : \E content \in Contents(trips) : receive_json(c, content)
    \/ \E c \in Conns : create_trip_stored(c)
    \/ \E c \in Conns : create_trip_resumed(c)
    \/ \E c \in Conns : dispatch(c)
    \/ \E g \in GroupNames : ext_group_send(g)
    \/ \E row \in SeedRows : seed_trip(row)

Spec == Init /\ [][Next]_vars

\* the event loop resumes a handler whose awaited call has returned, and
\* the consumer's loop hands every message that waits on its channel to
\* dispatch: neither is left waiting for ever
Fairness ==
    \A c \in Conns :
        /\ WF_vars(dispatch(c))
        /\ WF_vars(connect_resumed(c))
        /\ WF_vars(disconnect_resumed(c))
        /\ WF_vars(create_trip_stored(c))
        /\ WF_vars(create_trip_resumed(c))

FairSpec == Init /\ [][Next]_vars /\ Fairness

\* Group rows in pk order: the group of the first user created comes first
GroupPk == <<"rider", "driver">>

\* user.groups.add(group) calls made while connections are open
MaxGroupAdds == 1

GroupAdds ==
    Len(user_groups["alice"]) + Len(user_groups["bob"]) + Len(user_groups["carol"])
      - (Len(InitUserGroups["alice"]) + Len(InitUserGroups["bob"])
           + Len(InitUserGroups["carol"]))

\* Group.objects.get_or_create(name=group); user.groups.add(group), from
\* outside the consumers: the user is in that group too, and
\* user.groups.first() is the group of the lowest pk
groups_add(user, name) ==
    /\ GroupAdds < MaxGroupAdds
    /\ \A i \in 1..Len(user_groups[user]) : user_groups[user][i] # name
    /\ user_groups' =
         [user_groups EXCEPT ![user] =
            SelectSeq(GroupPk,
                      LAMBDA g : \/ g = name
                                 \/ \E i \in 1..Len(user_groups[user]) :
                                       user_groups[user][i] = g)]
    /\ Did("groups_add", External, [type |-> user, data |-> NoData], None)
    /\ UNCHANGED <<state, scope, accepted, groups, chanq, outbox, trips, created_by,
                   ext_sends, response, frame>>

NextRoles ==
    \/ Next
    \/ \E user \in Users, name \in {"rider", "driver"} : groups_add(user, name)

SpecRoles == Init /\ [][NextRoles]_vars

----------------------------------------------------------------------------
(* The HTTP trip endpoint (trips/views.py): TripView over a Trip table *)

\* User.group, the name of the user's group
user_group(ug, user) == IF HasGroup(ug, user) THEN Head(ug[user]) ELSE None

\* get_queryset that filters nothing
get_queryset_all(tr, ug, user) == tr

\* TripView.get_queryset
get_queryset(tr, ug, user) ==
    IF user_group(ug, user) = "driver"
    THEN SelectSeq(tr, LAMBDA t : t.status = REQUESTED \/ t.driver = user)
    ELSE IF user_group(ug, user) = "rider"
    THEN SelectSeq(tr, LAMBDA t : t.rider = user)
    ELSE <<>>

\* the Trip tables the endpoint is asked over
HttpRows == [status : {REQUESTED, IN_PROGRESS, COMPLETED},
             rider  : {"alice", "carol", Null},
             driver : {"bob", "carol", Null}]

HttpTables ==
    UNION {[1..n -> HttpRows] : n \in 0..MaxRows}

HttpTrip(i, row) ==
    [id |-> TripId(i),
     pick_up_address |-> "123 Test Street",
     drop_off_address |-> "456 Test Street",
     status |-> row.status,
     rider |-> row.rider,
     driver |-> row.driver]

HttpTripIds == {TripId(i) : i \in 1..MaxRows}

InitHttp ==
    /\ state = [c \in Conns |-> "Idle"]
    /\ scope = [c \in Conns |-> Anonymous]
    /\ accepted = [c \in Conns |-> FALSE]
    /\ groups = [g \in GroupNames |-> {}]
    /\ chanq = [c \in Conns |-> <<>>]
    /\ outbox = [c \in Conns |-> <<>>]
    /\ \E table \in HttpTables :
          /\ trips = [i \in 1..Len(table) |-> HttpTrip(i, table[i])]
          /\ created_by = [i \in 1..Len(table) |-> External]
    /\ user_groups = InitUserGroups
    /\ ext_sends = 0
    /\ response = <<>>
    /\ frame = [c \in Conns |-> NoFrame]
    /\ last = [op |-> "init", conn |-> External, content |-> NoContent, raised |-> None]

\* GET /api/trip/ as user: the queryset, listed
list(user) ==
    /\ response' = get_queryset(trips, user_groups, user)
    /\ Did("list", External,
           [type |-> "GET", data |-> [user |-> user, trip_id |-> Null]], None)
    /\ UNCHANGED <<state, scope, accepted, groups, chanq, outbox, trips, created_by,
                   user_groups, ext_sends, frame>>

\* GET /api/trip/<trip_id>/ as user: the row of the queryset with this id
retrieve(user, trip_id) ==
    /\ response' = SelectSeq(get_queryset(trips, user_groups, user),
                             LAMBDA t : t.id = trip_id)
    /\ Did("retrieve", External,
           [type |-> "GET", data |-> [user |-> user, trip_id |-> trip_id]],
           IF \E i \in 1..Len(trips) :
                 /\ trips[i].id = trip_id
                 /\ \E k \in 1..Len(get_queryset(trips, user_groups, user)) :
                       get_queryset(trips, user_groups, user)[k].id = trip_id
           THEN None ELSE "Http404")
    /\ UNCHANGED <<state, scope, accepted, groups, chanq, outbox, trips, created_by,
                   user_groups, ext_sends, frame>>

NextHttp ==
    \/ \E user \in Users : list(user)
    \/ \E user \in Users, trip_id \in HttpTripIds : retrieve(user, trip_id)

SpecHttp == InitHttp /\ [][NextHttp]_vars

----------------------------------------------------------------------------
(* What the properties below read off a state *)

Last(seq) == seq[Len(seq)]

\* the role the auth tables give the identity of connection c
Role(c) == _get_user_group(user_groups, scope[c])

\* the groups the channel of connection c is a member of
GroupsOf(c) == {g \in GroupNames : c \in groups[g]}

LastType == Get(last.content, "type")
LastData == Get(last.content, "data")

\* the step just taken handled this kind of envelope from a client
Handled(type) == last.op = "receive_json" /\ LastType = type

\* the trips the identity rides or drives that are not over
ActiveTrips(user) ==
    {i \in 1..Len(trips) : /\ trips[i].rider = user \/ trips[i].driver = user
                           /\ trips[i].status \notin TerminalStatuses}

----------------------------------------------------------------------------
(* C1: a connect attempt whose identity is anonymous (no token, or a token
   that does not verify) is never accepted: the connection never reaches
   Joined, its channel is in no group, and connect leaves it closed. *)
C1_UnauthenticatedRejected ==
    \A c \in Conns :
        (state[c] # "Idle" /\ is_anonymous(scope[c])) =>
            /\ ~accepted[c]
            /\ state[c] # "Joined"
            /\ GroupsOf(c) = {}
            /\ (last.op = "connect" /\ last.conn = c) =>
                   (state[c] = "Rejected" /\ last.raised = None)

C1_Witness ==
    \E c \in Conns :
        /\ last.op = "connect" /\ last.conn = c
        /\ is_anonymous(scope[c])
        /\ state[c] = "Rejected"

(* C2: a websocket opened on the project's endpoint with a valid token of a
   rider or a driver is routed to the consumer without an error, connect
   accepts it (Joined), and a later disconnect ends it without an error. *)
C2_ValidTokenAccepted ==
    /\ (/\ last.op = "application"
        /\ LastData.kind = "access"
        /\ _get_user_group(user_groups, LastData.user) \in {"rider", "driver"})
          => (last.raised = None /\ state[last.conn] = "Connecting")
    /\ (/\ last.op = "connect"
        /\ Role(last.conn) \in {"rider", "driver"})
          => (accepted[last.conn] /\ state[last.conn] = "Joined")
    /\ (/\ last.op = "disconnect"
        /\ Role(last.conn) \in {"rider", "driver"})
          => (last.raised = None /\ state[last.conn] = "Closed")

(* C3: a driver's session is a member of "drivers" from the moment its
   connect succeeds; an envelope then sent to "drivers" is put on the
   session's channel, and the session forwards what its channel holds to
   its client. *)
C3_DriverJoinsPool ==
    /\ \A c \in Conns :
          (state[c] = "Joined" /\ Role(c) = "driver") =>
              /\ c \in groups["drivers"]
              /\ (last.op = "group_send" /\ LastType = "drivers") =>
                     (chanq[c] # <<>> /\ Last(chanq[c]) = TestMessage)
    /\ last.op = "dispatch" =>
          (outbox[last.conn] # <<>> /\ Last(outbox[last.conn]) = last.content)

C3_Witness ==
    \E c \in Conns :
        /\ state[c] = "Joined" /\ Role(c) = "driver"
        /\ last.op = "dispatch" /\ last.conn = c
        /\ last.content = TestMessage
        /\ Last(outbox[c]) = TestMessage

(* C4: once disconnect has run for a session, rider or driver, the
   session's channel is a member of no group, whatever happened to the
   identity's groups while it was connected. *)
C4_DisconnectLeavesAllGroups ==
    \A c \in Conns :
        (state[c] = "Closed" \/ (last.op = "disconnect" /\ last.conn = c)) =>
            GroupsOf(c) = {}

(* C5: in every state, a session is a member of "drivers" if and only if
   its role is driver and it is currently connected. *)
C5_PoolIffConnectedDriver ==
    \A c \in Conns :
        c \in groups["drivers"] <=> (state[c] = "Joined" /\ Role(c) = "driver")

(* C6: handling a create.trip envelope with a valid payload adds one trip,
   REQUESTED and without driver, puts exactly one echo.message carrying the
   trip on the channel of every member of "drivers" and on no other channel,
   and sends exactly one echo.message with the same payload to the sender
   and nothing to any other client. *)
C6_CreateTripOneAlertOneReply ==
    [][/\ (last'.op = "_create_trip") =>
            LET c == last'.conn
                trip == Last(trips')
            IN /\ trips' = Append(trips, trip)
               /\ trip.status = REQUESTED
               /\ trip.driver = Null
               /\ frame'[c].trip = trip.id
               /\ chanq' = chanq /\ outbox' = outbox /\ groups' = groups
       /\ (/\ last'.op = "receive_json"
           /\ Get(last'.content, "type") = "create.trip"
           /\ is_valid(Get(last'.content, "data")))
            => LET c == last'.conn
                   trip == trips[TripIndex(trips, frame[c].trip)]
                   alert == [type |-> "echo.message", data |-> _get_trip_data(trip)]
               IN /\ trips' = trips
                  /\ \A d \in Conns :
                        chanq'[d] = IF d \in groups["drivers"]
                                    THEN Append(chanq[d], alert)
                                    ELSE chanq[d]
                  /\ outbox' = [outbox EXCEPT ![c] = Append(@, alert)]
                  /\ groups' = groups]_vars

C6_Witness ==
    /\ Handled("create.trip")
    /\ last.raised = None
    /\ \E d \in groups["drivers"] :
          /\ d # last.conn
          /\ chanq[d] # <<>>
          /\ Last(chanq[d]) = Last(outbox[last.conn])
          /\ Last(chanq[d]).data.id = Last(trips).id

(* C7: when a connected driver sends update.trip for a trip that is
   REQUESTED, with status IN_PROGRESS and a driver id, the trip is stored
   IN_PROGRESS with that driver and exactly one envelope carrying the
   updated trip is put on the channel of every member of the trip's group. *)
C7_UpdateTripBroadcast ==
    [][(/\ last'.op = "receive_json"
        /\ Get(last'.content, "type") = "update.trip"
        /\ Role(last'.conn) = "driver"
        /\ trips[TripIndex(trips, last'.content.data.id)].status = REQUESTED)
         => LET data == last'.content.data
                i == TripIndex(trips, data.id)
                update == [type |-> "echo.message",
                           data |-> _get_trip_data(trips'[i])]
            IN /\ trips'[i].status = IN_PROGRESS
               /\ trips'[i].driver = data.driver
               /\ trips'[i].rider = trips[i].rider
               /\ \A d \in Conns :
                     chanq'[d] = IF d \in groups[data.id]
                                 THEN Append(chanq[d], update)
                                 ELSE chanq[d]]_vars

(* C8: update.trip asking for IN_PROGRESS on a trip that is already
   assigned is answered with InvalidTransition (raised, or replied to the
   sender), and changes neither the trip nor any channel. *)
C8_SecondAcceptInvalidTransition ==
    [][(/\ last'.op = "receive_json"
        /\ Get(last'.content, "type") = "update.trip"
        /\ trips[TripIndex(trips, last'.content.data.id)].status = IN_PROGRESS)
         => /\ \/ last'.raised = "InvalidTransition"
               \/ outbox'[last'.conn] # outbox[last'.conn]
            /\ trips' = trips
            /\ chanq' = chanq]_vars

(* C9: when connect succeeds, the session is a member of the group of every
   trip its identity rides or drives that is not in a terminal status. *)
C9_JoinsActiveTripGroupsOnConnect ==
    (last.op = "connect" /\ state[last.conn] = "Joined") =>
        \A i \in ActiveTrips(scope[last.conn]) :
            last.conn \in groups[trips[i].id]

(* C10: after a rider's create.trip succeeds, the rider's session is a
   member of the new trip's group, so that a send to it reaches the rider. *)
C10_CreatorInTripGroup ==
    (Handled("create.trip") /\ last.raised = None /\ Role(last.conn) = "rider") =>
        last.conn \in groups[Last(outbox[last.conn]).data.id]

(* C11: handling create.trip leaves the sender a member of exactly the
   groups it was a member of before; in particular it is not a member of
   the new trip's group. *)
C11_CreateTripJoinsNoGroup ==
    [][(/\ last'.op = "receive_json"
        /\ Get(last'.content, "type") = "create.trip"
        /\ is_valid(Get(last'.content, "data")))
         => LET c == last'.conn IN
            /\ {g \in GroupNames : c \in groups'[g]} = {g \in GroupNames : c \in groups[g]}
            /\ c \notin groups'[frame[c].trip]]_vars

C11_Witness ==
    /\ Handled("create.trip")
    /\ last.raised = None
    /\ Last(outbox[last.conn]).data.id \in TripIds
    /\ last.conn \notin groups[Last(outbox[last.conn]).data.id]
    /\ GroupsOf(last.conn) = {"drivers"}

(* C12: an inbound echo.message envelope is sent back unchanged to the
   sender, once; nothing is put on any channel, no other client is sent
   anything, no trip is written and no group changes. *)
C12_EchoToSenderOnly ==
    [][(/\ last'.op = "receive_json"
        /\ Get(last'.content, "type") = "echo.message")
         => /\ outbox' = [outbox EXCEPT ![last'.conn] = Append(@, last'.content)]
            /\ chanq' = chanq
            /\ trips' = trips
            /\ groups' = groups
            /\ state' = state]_vars

C12_Witness ==
    /\ Handled("echo.message")
    /\ last.content = PingMessage
    /\ Last(outbox[last.conn]) = PingMessage
    /\ \E d \in groups["drivers"] : d # last.conn /\ state[d] = "Joined"

(* C13: an inbound envelope whose type is none of echo.message,
   create.trip, update.trip, or that has no type, changes nothing: nothing
   is sent to a client or put on a channel, no trip is written, no group
   changes, and the connection stays open. *)
C13_UnknownTypeIgnored ==
    [][(/\ last'.op = "receive_json"
        /\ Get(last'.content, "type") \notin
              {"echo.message", "create.trip", "update.trip"})
         => /\ outbox' = outbox
            /\ chanq' = chanq
            /\ trips' = trips
            /\ groups' = groups
            /\ state' = state
            /\ state'[last'.conn] = "Joined"
            /\ last'.raised = None]_vars

C13_Witness ==
    /\ last.op = "receive_json"
    /\ LastType = None
    /\ "type" \notin DOMAIN last.content
    /\ state[last.conn] = "Joined"

\* the group and the envelope of the send the step just taken made, if any
IsSend(l) ==
    \/ l.op = "group_send"
    \/ /\ l.op = "receive_json"
       /\ Get(l.content, "type") = "create.trip"
       /\ l.raised = None
SentGroup(l) == IF l.op = "group_send" THEN l.content.type ELSE "drivers"
SentMessage(l, tr, fr) ==
    IF l.op = "group_send"
    THEN TestMessage
    ELSE [type |-> "echo.message",
          data |-> _get_trip_data(tr[TripIndex(tr, fr[l.conn].trip)])]

(* C14: a send to a group puts the envelope, once, on the channel of every
   session that is a member of the group when the send is called and on no
   other channel; no other step puts anything on a channel, so a session
   that joins the group later never gets that envelope, and a client is
   only ever sent the head of its own channel or the reply to its own
   envelope. *)
C14_SendReachesMembersAtCallTime ==
    [][/\ IsSend(last') =>
            \A d \in Conns :
                chanq'[d] = IF d \in groups[SentGroup(last')]
                            THEN Append(chanq[d], SentMessage(last', trips', frame))
                            ELSE chanq[d]
       /\ ~IsSend(last') =>
            \A d \in Conns :
                \/ chanq'[d] = chanq[d]
                \/ /\ last'.op = "dispatch" /\ last'.conn = d
                   /\ chanq[d] # <<>>
                   /\ chanq'[d] = Tail(chanq[d])
                   /\ outbox'[d] = Append(outbox[d], Head(chanq[d]))
       /\ \A d \in Conns :
            outbox'[d] # outbox[d] =>
                /\ last'.conn = d
                /\ last'.op \in {"dispatch", "receive_json"}]_vars

C14_Witness ==
    \E c, d \in Conns :
        /\ c # d
        /\ {c, d} \subseteq groups["drivers"]
        /\ ext_sends = 1
        /\ outbox[c] = <<TestMessage>>
        /\ last.op = "connect" /\ last.conn = d
        /\ chanq[d] = <<>> /\ outbox[d] = <<>>

(* C15: a create.trip envelope whose payload does not validate is not fatal:
   the sender is sent one reply (the error), its connection stays Joined
   and handles later envelopes, no trip is stored, nothing is put on a
   channel, and no group changes. *)
C15_InvalidCreateTripNotFatal ==
    [][(/\ last'.op = "receive_json"
        /\ Get(last'.content, "type") = "create.trip"
        /\ ~is_valid(Get(last'.content, "data")))
         => LET c == last'.conn IN
            /\ last'.raised = None
            /\ state'[c] = "Joined"
            /\ Len(outbox'[c]) = Len(outbox[c]) + 1
            /\ trips' = trips
            /\ chanq' = chanq
            /\ groups' = groups]_vars

\* the rows of the table the role of the user lets the user see
Visible(user) ==
    LET role == user_group(user_groups, user) IN
    {i \in 1..Len(trips) :
        \/ role = "rider" /\ trips[i].rider = user
        \/ role = "driver" /\ (trips[i].status = REQUESTED \/ trips[i].driver = user)}

(* C16: the trip endpoint answers a rider with exactly the trips whose rider
   is that user, a driver with exactly the trips that are REQUESTED or
   whose driver is that user, and a user in neither role with no trip;
   the detail request answers with the row of that list with the id asked
   for, and with Http404 when there is none. *)
C16_QuerysetFilteredByRole ==
    last.op \in {"list", "retrieve"} =>
        LET user == LastData.user
            wanted == IF last.op = "list"
                      THEN Visible(user)
                      ELSE {i \in Visible(user) : trips[i].id = LastData.trip_id}
        IN /\ {response[k] : k \in 1..Len(response)} = {trips[i] : i \in wanted}
           /\ Len(response) = Cardinality(wanted)
           /\ user_group(user_groups, user) \notin {"rider", "driver"}
                 => response = <<>>
           /\ (last.op = "retrieve") => (last.raised = "Http404" <=> wanted = {})

C16_Witness ==
    /\ last.op = "list"
    /\ LastData.user = "bob"
    /\ Len(trips) = 2 /\ Len(response) = 1
    /\ response[1].status = REQUESTED /\ response[1].driver # "bob"
    /\ \E i \in 1..Len(trips) :
          trips[i].status # REQUESTED /\ trips[i].driver = "carol"

\* the state of the connection state machine a lifecycle position stands for
Phase(s) ==
    CASE s = "Idle"       -> "New"
      [] s = "Connecting" -> "Connecting"
      [] s = "Joined"     -> "Joined"
      [] OTHER            -> "Closed"

(* C17: a connection moves only Connecting -> Joined (through authentication)
   and Joined -> Closed, or Connecting -> Closed when authentication fails:
   it leaves Connecting for Closed only with an anonymous identity, enters
   Joined only from Connecting with an authenticated identity and accepted,
   never leaves Closed, and has its envelopes handled only in Joined. *)
C17_ConnectionStateMachine ==
    [][\A c \in Conns :
          LET p == Phase(state[c])
              q == Phase(state'[c])
          IN /\ (p # "New" /\ p # q) =>
                    <<p, q>> \in {<<"Connecting", "Joined">>,
                                  <<"Connecting", "Closed">>,
                                  <<"Joined", "Closed">>}
             /\ (p = "Connecting" /\ q = "Closed") => is_anonymous(scope[c])
             /\ (p # "Joined" /\ q = "Joined") =>
                    /\ p = "Connecting"
                    /\ ~is_anonymous(scope[c])
                    /\ accepted'[c]
             /\ (p = "Closed") => (q = "Closed")
             /\ (last'.op = "receive_json" /\ last'.conn = c) => p = "Joined"]_vars

(* C18: disconnect is safe and idempotent wherever connect left the
   connection (accepted, rejected, or failed partway): called then, it
   raises nothing, it leaves the channel in no group, and calling it a
   second time leaves the groups as the first call left them. *)
C18_DisconnectIdempotentAndSafe ==
    \A c \in Conns :
        state[c] \notin {"Idle", "Connecting"} =>
            LET user == scope[c]
                once == disconnect_groups(groups, user_groups, user, c)
                twice == disconnect_groups(once, user_groups, user, c)
            IN /\ disconnect_raised(user_groups, user) = None
               /\ \A g \in GroupNames : c \notin once[g]
               /\ twice = once

(* C19: a connection that was closed because one of its handlers raised has
   had the disconnect cleanup: its channel is a member of no group (a
   consumer that has ended runs no further handler, so what holds then
   holds for good), and the step that raised changed no other channel's
   membership. *)
C19_FaultedHandlerCleansUp ==
    \A c \in Conns :
        (state[c] = "Faulted" /\ accepted[c]) =>
            /\ GroupsOf(c) = {}
            /\ \A d \in Conns \ {c} :
                  state[d] = "Joined" =>
                      GroupsOf(d) = IF Role(d) = "driver" THEN {"drivers"} ELSE {}

\* what the client of channel d has been sent, then what waits on the channel
Received(d) == outbox[d] \o chanq[d]

\* the positions in seq of the envelopes that carry the trip with this id
AlertsOf(seq, id) == {i \in 1..Len(seq) : Get(seq[i].data, "id") = id}

\* the least element of a non-empty set of positions
First(S) == CHOOSE i \in S : \A k \in S : i <= k

\* the trips made by a create.trip of connection c that has been answered:
\* the sender has been sent the reply
SentBy(c) ==
    {i \in 1..Len(trips) :
        /\ created_by[i] = c
        /\ AlertsOf(outbox[c], trips[i].id) # {}}

(* C20: the envelopes of one connection are handled one at a time in the
   order received: when a session has sent create.trip A and then
   create.trip B, the send to "drivers" and the reply for A are made
   before the send for B, so on every channel that holds both (a driver's
   alerts, the sender's replies) the first envelope for A comes before the
   first envelope for B. *)
C20_CreateTripsInReceiptOrder ==
    \A c, d \in Conns :
        \A a, b \in SentBy(c) :
            (/\ a < b
             /\ AlertsOf(Received(d), trips[a].id) # {}
             /\ AlertsOf(Received(d), trips[b].id) # {})
              => First(AlertsOf(Received(d), trips[a].id))
                   < First(AlertsOf(Received(d), trips[b].id))

C20_Witness ==
    \E c, d \in Conns :
        /\ c # d
        /\ Len(trips) = 2
        /\ Role(c) = "rider" /\ Role(d) = "driver"
        /\ Len(outbox[c]) = 2
        /\ outbox[c][1].data.id = trips[1].id
        /\ outbox[c][2].data.id = trips[2].id
        /\ Len(outbox[d]) = 1 /\ Len(chanq[d]) = 1
        /\ outbox[d][1].data.id = trips[1].id
        /\ chanq[d][1].data.id = trips[2].id

\* how many times envelope m is in what channel d was sent or still holds
Copies(out, q, d, m) ==
    Cardinality({i \in 1..Len(out[d] \o q[d]) : (out[d] \o q[d])[i] = m})

(* C21: however connect, disconnect and create.trip of different connections
   interleave, one send to "drivers" adds one copy of its envelope for
   every session that is a member when the send is called and none for any
   other session, in particular none for a session whose disconnect had
   removed it from "drivers" before; and no later step adds or removes a
   copy (delivery moves the copy from the channel to the client). *)
C21_PoolSendAtMostOncePerDriver ==
    [][\A d \in Conns :
          LET m == SentMessage(last', trips', frame)
              sent == IsSend(last') /\ SentGroup(last') = "drivers"
              reply == IF /\ last'.op = "receive_json" /\ last'.conn = d
                          /\ Get(last'.content, "type") = "create.trip"
                       THEN 1 ELSE 0
          IN /\ sent =>
                  /\ Copies(outbox', chanq', d, m)
                       = Copies(outbox, chanq, d, m) + reply
                           + (IF d \in groups["drivers"] THEN 1 ELSE 0)
                  /\ state[d] = "Closed" =>
                        /\ d \notin groups["drivers"]
                        /\ chanq'[d] = chanq[d] /\ outbox'[d] = outbox[d]
             /\ ~IsSend(last') =>
                  \/ outbox'[d] \o chanq'[d] = outbox[d] \o chanq[d]
                  \/ /\ last'.op = "receive_json" /\ last'.conn = d
                     /\ Get(last'.content, "type") = "echo.message"
                     /\ outbox'[d] = Append(outbox[d], last'.content)
                     /\ chanq'[d] = chanq[d]]_vars

C21_Witness ==
    \E c, d \in Conns :
        /\ c # d
        /\ Handled("create.trip") /\ last.conn = c /\ last.raised = None
        /\ Role(c) = "driver" /\ c \in groups["drivers"]
        /\ Role(d) = "driver" /\ state[d] = "Closed" /\ accepted[d]
        /\ outbox[d] = <<TestMessage>> /\ chanq[d] = <<>>
        /\ Copies(outbox, chanq, c, Last(chanq[c])) = 2

\* the echo.message envelope that carries trip i
AlertFor(i) == [type |-> "echo.message", data |-> _get_trip_data(trips[i])]

\* trip i is being handled or its alert waits, and driver session d is Joined:
\* a create_trip holds the stored trip and has not sent yet, or the alert
\* is on the channel of d
Alerted(d, i) ==
    /\ i <= Len(trips)
    /\ state[d] = "Joined" /\ Role(d) = "driver"
    /\ \/ \E c \in Conns :
             /\ frame[c].at \in {"_create_trip", "_get_trip_data"}
             /\ frame[c].trip = TripId(i)
       \/ \E k \in 1..Len(chanq[d]) : chanq[d][k] = AlertFor(i)

\* the client of d has been sent the envelope that carries trip i
Delivered(d, i) ==
    /\ i <= Len(trips)
    /\ \E k \in 1..Len(outbox[d]) : outbox[d][k] = AlertFor(i)

(* C22: when a valid create.trip is being handled while driver session D is
   Joined, D's client is eventually sent an echo.message carrying that
   trip, unless D's connection ends first; under fair scheduling of the
   handlers and of the consumer's dispatch. *)
C22_DriverEventuallyAlerted ==
    \A d \in Conns : \A i \in 1..MaxEvents :
        Alerted(d, i) ~> (Delivered(d, i) \/ state[d] # "Joined")

C22_Witness ==
    \E c, d \in Conns :
        /\ c # d
        /\ Role(c) = "rider" /\ Role(d) = "driver"
        /\ state[d] = "Joined"
        /\ Len(trips) = 1
        /\ outbox[c] = <<AlertFor(1)>>
        /\ last.op = "dispatch" /\ last.conn = d
        /\ outbox[d] = <<AlertFor(1)>> /\ chanq[d] = <<>>

(* C23: for each trip made by a create.trip, every session's client is sent
   at most one envelope carrying that trip, whatever the role of the
   sender: a sender that is in "drivers" is not sent the trip once as the
   reply and once more from the pool. *)
C23_OneEnvelopePerTripPerSession ==
    \A d \in Conns :
        \A i \in 1..Len(trips) :
            Cardinality({k \in 1..Len(outbox[d]) : outbox[d][k] = AlertFor(i)}) <= 1

(* C24: disconnect takes the session's channel out of exactly the groups it
   joined at connect and raises nothing, whatever the identity's groups
   are when disconnect runs: a channel that joined "drivers" at connect
   is out of "drivers" after disconnect even when the identity is no
   longer a driver, or has no group left. *)
C24_DisconnectIgnoresCurrentRole ==
    [][(last'.op = "disconnect") =>
          LET c == last'.conn IN
          /\ groups' = [g \in GroupNames |-> groups[g] \ {c}]
          /\ \A g \in GroupNames : c \notin groups'[g]
          /\ last'.raised = None
          /\ state'[c] = "Closed"]_vars

====
